---- MODULE Spec2Model ----
(***************************************************************************)
(* A model of mcp-auth-fetch (index.ts): URL-to-rule matching, credential  *)
(* application, the OAuth2 token cache, fetch_url and test_auth.            *)
(*                                                                         *)
(* Strings that the program inspects character by character (URLs, rule    *)
(* patterns) are sequences of one-character strings.  Strings that the     *)
(* program only compares, concatenates or prints are TLA+ strings.         *)
(***************************************************************************)
EXTENDS Integers, Sequences, FiniteSets, TLC

(***************************************************************************)
(* Bounds of the model.                                                    *)
(***************************************************************************)
MaxRules == 3       \* longest rule list drawn for the matcher
NCalls == 2         \* invocations (fetch_url / test_auth) per behaviour
MaxNow == 60000     \* the clock (Date.now(), ms) stops advancing here
TickMs == 30000     \* one step of the clock

(***************************************************************************)
(* An optional value (a field that may be absent, a result that may be     *)
(* undefined or null) is << >> when absent and <<v>> when present.         *)
(***************************************************************************)
Undefined == << >>

Some(v) == <<v>>

(***************************************************************************)
(* Character-level helpers.                                                *)
(***************************************************************************)
StartsWith(s, c) == Len(s) >= 1 /\ s[1] = c

Includes(s, c) == \E i \in 1..Len(s) : s[i] = c

\* String.prototype.slice(1, -1)
Slice1m1(s) == IF Len(s) <= 2 THEN << >> ELSE SubSeq(s, 2, Len(s) - 1)

\* index of the first occurrence of c in s at or after position from, 0 if none
IndexFrom(s, c, from) ==
  IF \E i \in from..Len(s) : s[i] = c
  THEN CHOOSE i \in from..Len(s) : s[i] = c /\ \A j \in from..(i - 1) : s[j] # c
  ELSE 0

ToLower(c) ==
  CASE c = "A" -> "a"
    [] c = "B" -> "b"
    [] c = "C" -> "c"
    [] c = "I" -> "i"
    [] c = "O" -> "o"
    [] OTHER -> c

LowerAll(s) == [i \in 1..Len(s) |-> ToLower(s[i])]

(***************************************************************************)
(* new URL(url).host for the URL forms of the model:                       *)
(*   scheme ":" "//" host [":" port] [ "/" path ]   (http, https)          *)
(*   anything without a scheme does not parse (TypeError);                 *)
(*   scheme ":" rest without "//" has an opaque path and an empty host.    *)
(* The host is lower-cased and a port equal to the scheme's default is     *)
(* dropped, as the URL parser does.                                        *)
(***************************************************************************)
HttpScheme == <<"h", "t", "t", "p">>
HttpsScheme == <<"h", "t", "t", "p", "s">>

\* DefaultPort knowing no default port
DefaultPort_Unknown(scheme) == << >>

DefaultPort(scheme) ==
  CASE scheme = HttpScheme -> <<"8", "0">>
    [] scheme = HttpsScheme -> <<"4", "4", "3">>
    [] OTHER -> << >>

ParseUrl(url) ==
  LET colon == IndexFrom(url, ":", 1)
      bad == [ok |-> FALSE, scheme |-> << >>, host |-> << >>, path |-> << >>]
  IN
  IF colon <= 1 \/ Includes(SubSeq(url, 1, colon - 1), " ")
  THEN bad
  ELSE
    LET scheme == LowerAll(SubSeq(url, 1, colon - 1))
        rest == SubSeq(url, colon + 1, Len(url))
    IN
    IF ~(Len(rest) >= 2 /\ rest[1] = "/" /\ rest[2] = "/")
    THEN [ok |-> TRUE, scheme |-> scheme, host |-> << >>, path |-> rest]
    ELSE
      LET after == SubSeq(rest, 3, Len(rest))
          slash == IndexFrom(after, "/", 1)
          authority == IF slash = 0 THEN after ELSE SubSeq(after, 1, slash - 1)
          path == IF slash = 0 THEN <<"/">> ELSE SubSeq(after, slash, Len(after))
          pcolon == IndexFrom(authority, ":", 1)
          hostname == IF pcolon = 0 THEN authority
                      ELSE SubSeq(authority, 1, pcolon - 1)
          port == IF pcolon = 0 THEN << >>
                  ELSE SubSeq(authority, pcolon + 1, Len(authority))
      IN
      IF hostname = << >> \/ Includes(hostname, " ")
      THEN bad
      ELSE [ok |-> TRUE, scheme |-> scheme,
            host |-> IF port = << >> \/ port = DefaultPort(scheme)
                     THEN LowerAll(hostname)
                     ELSE LowerAll(hostname) \o <<":">> \o port,
            path |-> path]

\* getDomain: the host, or "" when the URL constructor throws
getDomain(url) == IF ParseUrl(url).ok THEN ParseUrl(url).host ELSE << >>

\* new URL(url).toString() without its query
UrlHref(url) ==
  LET u == ParseUrl(url) IN
  IF u.host = << >> THEN u.scheme \o <<":">> \o u.path
  ELSE u.scheme \o <<":", "/", "/">> \o u.host \o u.path

(***************************************************************************)
(* new RegExp(source) and regex.test(text) for the regular expressions of  *)
(* the model: literal characters, "\c" (the character c), ".", "^", "$"    *)
(* and the postfix "*".  The constructor throws (SyntaxError) on a "*"     *)
(* with nothing to repeat, on a trailing "\" and on a parenthesis (groups   *)
(* are not part of the modelled language; its only parentheses are         *)
(* unbalanced ones).                                                       *)
(***************************************************************************)
RECURSIVE RegexAtoms(_, _, _)
RegexAtoms(re, i, acc) ==
  IF i > Len(re) THEN [ok |-> TRUE, atoms |-> acc]
  ELSE
    LET c == re[i] IN
    CASE c = "\\" ->
           IF i = Len(re) THEN [ok |-> FALSE, atoms |-> << >>]
           ELSE RegexAtoms(re, i + 2,
                  Append(acc, [kind |-> "lit", ch |-> re[i + 1], star |-> FALSE]))
      [] c = "*" ->
           IF acc = << >> \/ acc[Len(acc)].star
              \/ acc[Len(acc)].kind \in {"bol", "eol"}
           THEN [ok |-> FALSE, atoms |-> << >>]
           ELSE RegexAtoms(re, i + 1,
                  [acc EXCEPT ![Len(acc)].star = TRUE])
      [] c = "(" \/ c = ")" -> [ok |-> FALSE, atoms |-> << >>]
      [] c = "." -> RegexAtoms(re, i + 1,
                      Append(acc, [kind |-> "any", ch |-> ".", star |-> FALSE]))
      [] c = "^" -> RegexAtoms(re, i + 1,
                      Append(acc, [kind |-> "bol", ch |-> "^", star |-> FALSE]))
      [] c = "$" -> RegexAtoms(re, i + 1,
                      Append(acc, [kind |-> "eol", ch |-> "$", star |-> FALSE]))
      [] OTHER -> RegexAtoms(re, i + 1,
                    Append(acc, [kind |-> "lit", ch |-> c, star |-> FALSE]))

\* does new RegExp(re) succeed
RegexCompiles(re) == RegexAtoms(re, 1, << >>).ok

AtomMatches(a, c) == a.kind = "any" \/ (a.kind = "lit" /\ a.ch = c)

\* the atoms from index i on match text starting after its first p characters
RECURSIVE MatchHere(_, _, _, _)
MatchHere(atoms, i, text, p) ==
  IF i > Len(atoms) THEN TRUE
  ELSE
    LET a == atoms[i] IN
    CASE a.kind = "bol" -> p = 0 /\ MatchHere(atoms, i + 1, text, p)
      [] a.kind = "eol" -> p = Len(text) /\ MatchHere(atoms, i + 1, text, p)
      [] a.star ->
           \E k \in 0..(Len(text) - p) :
             /\ \A j \in (p + 1)..(p + k) : AtomMatches(a, text[j])
             /\ MatchHere(atoms, i + 1, text, p + k)
      [] OTHER ->
           /\ p < Len(text)
           /\ AtomMatches(a, text[p + 1])
           /\ MatchHere(atoms, i + 1, text, p + 1)

\* regex.test(text): an unanchored search
RegexTest(re, text) ==
  LET atoms == RegexAtoms(re, 1, << >>).atoms IN
  \E p \in 0..Len(text) : MatchHere(atoms, 1, text, p)

(***************************************************************************)
(* micromatch.isMatch(text, pattern) for patterns made of literal          *)
(* characters and "*": the whole text must match, "*" standing for a run   *)
(* of characters other than "/".                                           *)
(***************************************************************************)
RECURSIVE GlobHere(_, _, _, _)
GlobHere(pat, i, text, p) ==
  IF i > Len(pat) THEN p = Len(text)
  ELSE IF pat[i] = "*"
  THEN \E k \in 0..(Len(text) - p) :
         /\ \A j \in (p + 1)..(p + k) : text[j] # "/"
         /\ GlobHere(pat, i + 1, text, p + k)
  ELSE /\ p < Len(text)
       /\ text[p + 1] = pat[i]
       /\ GlobHere(pat, i + 1, text, p + 1)

\* an empty text matches no pattern
isMatch(text, pat) == text # << >> /\ GlobHere(pat, 1, text, 0)

(***************************************************************************)
(* findMatchingRule.                                                       *)
(***************************************************************************)
\* IsActive without the test of the flag
IsActive_IgnoresFlag(rule) == TRUE

\* rules.filter((rule) => rule.enabled !== false)
IsActive(rule) == rule.enabled # <<FALSE>>

ActiveRules(rules) == SelectSeq(rules, IsActive)

\* SortCompare without its two lines on regular expressions
SortCompare_NoRegexTier(a, b) ==
  LET aIsGlob == Includes(a.url_pattern, "*")
      bIsGlob == Includes(b.url_pattern, "*")
  IN
  IF ~aIsGlob /\ bIsGlob THEN -1
  ELSE IF aIsGlob /\ ~bIsGlob THEN 1
  ELSE Len(b.url_pattern) - Len(a.url_pattern)

\* the comparator handed to activeRules.sort
SortCompare(a, b) ==
  LET aIsRegex == StartsWith(a.url_pattern, "/")
      bIsRegex == StartsWith(b.url_pattern, "/")
      aIsGlob == Includes(a.url_pattern, "*")
      bIsGlob == Includes(b.url_pattern, "*")
  IN
  IF aIsRegex /\ ~bIsRegex THEN -1
  ELSE IF ~aIsRegex /\ bIsRegex THEN 1
  ELSE IF ~aIsGlob /\ bIsGlob THEN -1
  ELSE IF aIsGlob /\ ~bIsGlob THEN 1
  ELSE Len(b.url_pattern) - Len(a.url_pattern)

\* x put into the sorted sequence s behind every element that does not
\* compare greater than it (Array.prototype.sort is stable)
InsertSorted(s, x) ==
  LET k == Cardinality({i \in 1..Len(s) : SortCompare(s[i], x) <= 0}) IN
  SubSeq(s, 1, k) \o <<x>> \o SubSeq(s, k + 1, Len(s))

RECURSIVE SortRules(_)
SortRules(s) ==
  IF s = << >> THEN << >>
  ELSE InsertSorted(SortRules(SubSeq(s, 1, Len(s) - 1)), s[Len(s)])

\* the body of the for loop: does this rule's pattern match the domain
RuleMatches(rule, domain) ==
  IF StartsWith(rule.url_pattern, "/")
  THEN /\ RegexCompiles(Slice1m1(rule.url_pattern))
       /\ RegexTest(Slice1m1(rule.url_pattern), domain)
  ELSE isMatch(domain, rule.url_pattern)

\* FirstMatch looking at the first rule of the sequence alone
FirstMatch_HeadOnly(sorted, domain) ==
  IF sorted # << >> /\ RuleMatches(sorted[1], domain)
  THEN Some(sorted[1])
  ELSE Undefined

\* FirstMatch giving up at a regex that does not compile
FirstMatch_AbortsOnBadRegex(sorted, domain) ==
  LET stops(i) == \/ RuleMatches(sorted[i], domain)
                  \/ /\ StartsWith(sorted[i].url_pattern, "/")
                     /\ ~RegexCompiles(Slice1m1(sorted[i].url_pattern))
  IN
  IF \E i \in 1..Len(sorted) : stops(i)
  THEN LET k == CHOOSE i \in 1..Len(sorted) :
                  stops(i) /\ \A j \in 1..(i - 1) : ~stops(j)
       IN IF RuleMatches(sorted[k], domain) THEN Some(sorted[k]) ELSE Undefined
  ELSE Undefined

\* the first rule of the sequence that matches, or undefined
FirstMatch(sorted, domain) ==
  IF \E i \in 1..Len(sorted) : RuleMatches(sorted[i], domain)
  THEN Some(sorted[CHOOSE i \in 1..Len(sorted) :
                     /\ RuleMatches(sorted[i], domain)
                     /\ \A j \in 1..(i - 1) : ~RuleMatches(sorted[j], domain)])
  ELSE Undefined

\* findMatchingRule without the return on an empty domain
findMatchingRule_NoDomainGuard(url, rules) ==
  FirstMatch(SortRules(ActiveRules(rules)), getDomain(url))

findMatchingRule(url, rules) ==
  LET domain == getDomain(url) IN
  IF domain = << >> THEN Undefined
  ELSE FirstMatch(SortRules(ActiveRules(rules)), domain)

(***************************************************************************)
(* The inputs of the matcher: URLs and rules.                              *)
(***************************************************************************)
UrlA == <<"h","t","t","p","s",":","/","/","a",".","i","o","/","x">>
UrlBA == <<"h","t","t","p","s",":","/","/","b",".","a",".","i","o">>
UrlUpperPort == <<"h","t","t","p",":","/","/","A",".","i","o",":","8","0","/">>
UrlBare == <<"a",".","i","o">>

MatchUrls == {UrlA, UrlBA, UrlUpperPort, UrlBare}

PatExactA == <<"a",".","i","o">>
PatExactBA == <<"b",".","a",".","i","o">>
PatGlobIo == <<"*",".","i","o">>
PatGlobAIo == <<"*",".","a",".","i","o">>
PatStar == <<"*">>
PatReAnchored == <<"/","^","a","\\",".","i","o","$","/">>
PatReShort == <<"/","a","/">>
PatReStar == <<"/",".","*","i","o","/">>
PatReBad == <<"/","*","a","/">>
PatReAny == <<"/",".","*","/">>

BearerAuth(token) == [type |-> "bearer", token |-> token]

MkRule(pattern, enabled) ==
  [url_pattern |-> pattern, auth |-> BearerAuth("t"),
   description |-> Undefined, enabled |-> enabled]

RuleCatalogue ==
  {MkRule(p, Undefined) :
     p \in {PatExactA, PatExactBA, PatGlobIo, PatGlobAIo, PatStar,
            PatReAnchored, PatReShort, PatReStar, PatReBad, PatReAny}}
  \cup {MkRule(PatExactA, Some(FALSE)), MkRule(PatReShort, Some(FALSE)),
        MkRule(PatStar, Some(TRUE))}

\* the rule lists of at most MaxRules distinct rules, in every order
RuleLists ==
  UNION {{s \in [1..n -> RuleCatalogue] :
            \A i, j \in 1..n : i # j => s[i] # s[j]} : n \in 0..MaxRules}

(***************************************************************************)
(* Configuration loading.  The file system holds at most one configuration *)
(* file; fsys describes it: its path (absent when findConfigFile finds     *)
(* none), whether readFileSync can read it, the environment variables its  *)
(* text refers to, whether the substituted text is JSON, whether the JSON  *)
(* satisfies ConfigSchema, and the configuration it then yields.           *)
(***************************************************************************)
EnvVars == {"TOKEN"}

EmptyConfig == [auth_rules |-> << >>, global_settings |-> Undefined]

findConfigFile(fs) == fs.path

loadConfig(fs) ==
  IF findConfigFile(fs) = Undefined
  THEN [ok |-> TRUE, config |-> EmptyConfig, message |-> ""]
  ELSE IF ~fs.readable
  THEN [ok |-> FALSE, config |-> EmptyConfig,
        message |-> "Failed to read config"]
  ELSE IF \E v \in fs.refs : v \notin EnvVars
  THEN [ok |-> FALSE, config |-> EmptyConfig,
        message |-> "Missing required environment variable: "
                    \o (CHOOSE v \in fs.refs : v \notin EnvVars)]
  ELSE IF ~fs.json
  THEN [ok |-> FALSE, config |-> EmptyConfig,
        message |-> "Unexpected token in JSON"]
  ELSE IF ~fs.schema
  THEN [ok |-> FALSE, config |-> EmptyConfig, message |-> "ZodError"]
  ELSE [ok |-> TRUE, config |-> fs.data, message |-> ""]

\* config.global_settings?.<field>
UserAgentOf(config) ==
  IF config.global_settings = Undefined THEN Undefined
  ELSE config.global_settings[1].user_agent

DefaultTimeoutOf(config) ==
  IF config.global_settings = Undefined THEN Undefined
  ELSE config.global_settings[1].default_timeout

VerboseOf(config) ==
  IF config.global_settings = Undefined THEN Undefined
  ELSE config.global_settings[1].verbose_test_auth

\* JavaScript truthiness of an optional string / boolean
TruthyStr(opt) == opt # Undefined /\ opt[1] # ""

TruthyBool(opt) == opt # Undefined /\ opt[1]

(***************************************************************************)
(* The OAuth2 token cache and getOAuth2Token.                              *)
(***************************************************************************)
BufferSeconds == 60
MsPerSecond == 1000

cacheKey(auth) == auth.token_url \o "|" \o auth.client_id

\* const cachedToken = tokenCache[cacheKey]
CachedToken(cache, auth) ==
  IF cacheKey(auth) \in DOMAIN cache THEN Some(cache[cacheKey(auth)])
  ELSE Undefined

\* CacheHit with the comparison the wrong way round
CacheHit_Reversed(cached, t) == cached # Undefined /\ t >= cached[1].expiresAt

\* CacheHit with the entry still good at its expires_at
CacheHit_Inclusive(cached, t) == cached # Undefined /\ t <= cached[1].expiresAt

\* cachedToken && Date.now() < cachedToken.expiresAt
CacheHit(cached, t) == cached # Undefined /\ t < cached[1].expiresAt

\* TokenParams without the refresh-token branch
TokenParams_ClientCredentialsOnly(auth) ==
  <<(<<"client_id", auth.client_id>>), (<<"client_secret", auth.client_secret>>)>>
  \o (IF TruthyStr(auth.scope) THEN <<(<<"scope", auth.scope[1]>>)>> ELSE << >>)
  \o <<(<<"grant_type", "client_credentials">>)>>

\* the URLSearchParams of the token request, in append order
TokenParams(auth) ==
  <<(<<"client_id", auth.client_id>>), (<<"client_secret", auth.client_secret>>)>>
  \o (IF TruthyStr(auth.scope) THEN <<(<<"scope", auth.scope[1]>>)>> ELSE << >>)
  \o (IF TruthyStr(auth.refresh_token)
      THEN <<(<<"grant_type", "refresh_token">>),
             (<<"refresh_token", auth.refresh_token[1]>>)>>
      ELSE <<(<<"grant_type", "client_credentials">>)>>)

TokenRequest(auth) ==
  [kind |-> "token", token_url |-> auth.token_url, method |-> "POST",
   headers |-> ("Content-Type" :> "application/x-www-form-urlencoded"),
   params |-> TokenParams(auth)]

\* response.ok
ResponseOk(resp) == resp.status >= 200 /\ resp.status <= 299

\* ExpiresAt without the 60-second buffer
ExpiresAt_NoBuffer(t, expires_in) == t + expires_in * MsPerSecond

\* the expiry computed from a token response processed at time t
ExpiresAt(t, expires_in) == t + (expires_in - BufferSeconds) * MsPerSecond

\* what getOAuth2Token does with the settled token request: it throws (the
\* fetch rejected, the status is not 2xx, the body is not JSON) or it builds
\* the cache entry and returns the access token
TokenOutcome(resp, t) ==
  IF resp.kind = "reject"
  THEN [ok |-> FALSE, message |-> resp.message, entry |-> Undefined]
  ELSE IF ~ResponseOk(resp)
  THEN [ok |-> FALSE,
        message |-> "Failed to fetch OAuth2 token: " \o ToString(resp.status)
                    \o " " \o resp.statusText \o " - " \o resp.text,
        entry |-> Undefined]
  ELSE IF resp.json = Undefined
  THEN [ok |-> FALSE, message |-> "invalid json response body",
        entry |-> Undefined]
  ELSE [ok |-> TRUE, message |-> "",
        entry |-> Some([accessToken |-> resp.json[1].access_token,
                        expiresAt |-> ExpiresAt(t, resp.json[1].expires_in)])]

\* CacheAfter dropping the key's entry when the exchange failed
CacheAfter_EvictsOnFailure(cache, auth, outcome) ==
  IF outcome.ok
  THEN [k \in DOMAIN cache \cup {cacheKey(auth)} |->
          IF k = cacheKey(auth) THEN outcome.entry[1] ELSE cache[k]]
  ELSE [k \in DOMAIN cache \ {cacheKey(auth)} |-> cache[k]]

\* CacheAfter building a new cache that holds the new entry alone
CacheAfter_ForgetsOthers(cache, auth, outcome) ==
  IF outcome.ok
  THEN [k \in {cacheKey(auth)} |-> outcome.entry[1]]
  ELSE cache

\* CacheAfter keeping an entry that expires later than the new one
CacheAfter_KeepsLaterExpiry(cache, auth, outcome) ==
  IF outcome.ok
  THEN [k \in DOMAIN cache \cup {cacheKey(auth)} |->
          IF k # cacheKey(auth) THEN cache[k]
          ELSE IF /\ k \in DOMAIN cache
                  /\ cache[k].expiresAt > outcome.entry[1].expiresAt
          THEN cache[k]
          ELSE outcome.entry[1]]
  ELSE cache

\* tokenCache after the token request of an exchange for auth has settled
CacheAfter(cache, auth, outcome) ==
  IF outcome.ok
  THEN [k \in DOMAIN cache \cup {cacheKey(auth)} |->
          IF k = cacheKey(auth) THEN outcome.entry[1] ELSE cache[k]]
  ELSE cache

(***************************************************************************)
(* fetch_url: the pieces of its body.  A header map is a function from     *)
(* header names to values; the method and body arguments are handed to the *)
(* transport as given and are left out.                                    *)
(***************************************************************************)
DefaultTimeout == 30000

NoHeaders == << >>

\* obj[name] = value
SetHeader(headers, name, value) == (name :> value) @@ headers

\* Object.assign(headers, more)
AssignHeaders(headers, more) == more @@ headers

\* BaseHeaders keeping a User-Agent the caller supplied
BaseHeaders_CallerWins(headers, config) ==
  IF TruthyStr(UserAgentOf(config)) /\ "User-Agent" \notin DOMAIN headers
  THEN SetHeader(headers, "User-Agent", UserAgentOf(config)[1])
  ELSE headers

\* const finalHeaders = { ...headers }; then the global user agent
BaseHeaders(headers, config) ==
  IF TruthyStr(UserAgentOf(config))
  THEN SetHeader(headers, "User-Agent", UserAgentOf(config)[1])
  ELSE headers

Bearer(token) == "Bearer " \o token

\* Buffer.from(s).toString("base64"), kept symbolic
Base64(s) == "base64(" \o s \o ")"

\* Object.entries(cookies).map(([k, v]) => `${k}=${v}`).join("; ")
RECURSIVE JoinCookies(_)
JoinCookies(cookies) ==
  IF cookies = << >> THEN ""
  ELSE IF Len(cookies) = 1 THEN cookies[1][1] \o "=" \o cookies[1][2]
  ELSE cookies[1][1] \o "=" \o cookies[1][2] \o "; " \o JoinCookies(Tail(cookies))

\* ApplyAuth going on with the headers as they are when the callback throws
ApplyAuth_IgnoresThrow(auth, url, headers) ==
  LET done(h, q) == [ok |-> TRUE, headers |-> h, query |-> q, message |-> ""] IN
  CASE auth.type = "bearer" ->
         done(SetHeader(headers, "Authorization", Bearer(auth.token)), << >>)
    [] auth.type = "api_key" ->
         IF auth.in = "header"
         THEN done(SetHeader(headers, auth.key, auth.value), << >>)
         ELSE done(headers, <<(<<auth.key, auth.value>>)>>)
    [] auth.type = "basic" ->
         done(SetHeader(headers, "Authorization",
                "Basic " \o Base64(auth.username \o ":" \o auth.password)), << >>)
    [] auth.type = "cookie" ->
         done(SetHeader(headers, "Cookie", JoinCookies(auth.cookies)), << >>)
    [] auth.type = "function" ->
         IF auth.function.returns = "token"
         THEN done(SetHeader(headers, "Authorization",
                     Bearer(auth.function.token)), << >>)
         ELSE IF auth.function.returns = "headers"
         THEN done(AssignHeaders(headers, auth.function.headers), << >>)
         ELSE done(headers, << >>)

\* the cases of the switch that do not wait: the headers and the query
\* parameters appended to the URL, or the message of what was thrown
ApplyAuth(auth, url, headers) ==
  LET done(h, q) == [ok |-> TRUE, headers |-> h, query |-> q, message |-> ""] IN
  CASE auth.type = "bearer" ->
         done(SetHeader(headers, "Authorization", Bearer(auth.token)), << >>)
    [] auth.type = "api_key" ->
         IF auth.in = "header"
         THEN done(SetHeader(headers, auth.key, auth.value), << >>)
         ELSE IF ParseUrl(url).ok
         THEN done(headers, <<(<<auth.key, auth.value>>)>>)
         ELSE [ok |-> FALSE, headers |-> headers, query |-> << >>,
               message |-> "Invalid URL"]
    [] auth.type = "basic" ->
         done(SetHeader(headers, "Authorization",
                "Basic " \o Base64(auth.username \o ":" \o auth.password)), << >>)
    [] auth.type = "cookie" ->
         done(SetHeader(headers, "Cookie", JoinCookies(auth.cookies)), << >>)
    [] auth.type = "function" ->
         IF auth.function.returns = "throws"
         THEN [ok |-> FALSE, headers |-> headers, query |-> << >>,
               message |-> auth.function.message]
         ELSE IF auth.function.returns = "token"
         THEN done(SetHeader(headers, "Authorization",
                     Bearer(auth.function.token)), << >>)
         ELSE done(AssignHeaders(headers, auth.function.headers), << >>)

\* timeout ?? config.global_settings?.default_timeout ?? 30000
FinalTimeout(timeout, config) ==
  IF timeout # Undefined THEN timeout[1]
  ELSE IF DefaultTimeoutOf(config) # Undefined THEN DefaultTimeoutOf(config)[1]
  ELSE DefaultTimeout

AuthFailedMessage(message) == "Authentication failed: " \o message

TimeoutMessage(ms) == "Request timed out after " \o ToString(ms) \o "ms"

ResourceRequest(url, query, headers) ==
  [kind |-> "resource",
   url |-> IF query = << >> THEN url ELSE UrlHref(url),
   query |-> query, headers |-> headers]

(***************************************************************************)
(* maskAuthRule and test_auth.                                             *)
(***************************************************************************)
Masked == "***MASKED***"

\* JSON.parse(JSON.stringify(rule)): absent fields stay absent, and a
\* property whose value is a function is left out
JsonCopy(rule) ==
  IF rule.auth.type = "function"
  THEN [rule EXCEPT !.auth = [type |-> "function"]]
  ELSE rule

\* maskAuthRule leaving the user name of a basic rule as it is
maskAuthRule_KeepsUsername(rule) ==
  LET a == JsonCopy(rule).auth IN
  [rule EXCEPT !.auth =
     CASE a.type = "bearer" -> [a EXCEPT !.token = Masked]
       [] a.type = "api_key" -> [a EXCEPT !.value = Masked]
       [] a.type = "basic" -> [a EXCEPT !.password = Masked]
       [] a.type = "cookie" ->
            [a EXCEPT !.cookies =
               [i \in 1..Len(a.cookies) |-> <<a.cookies[i][1], Masked>>]]
       [] a.type = "oauth2" ->
            [a EXCEPT !.client_secret = Masked,
                      !.refresh_token = Some(Masked)]
       [] OTHER -> a]

\* maskAuthRule putting the mask in front of a bearer token instead of
\* in its place
maskAuthRule_PrefixesToken(rule) ==
  LET a == JsonCopy(rule).auth IN
  [rule EXCEPT !.auth =
     CASE a.type = "bearer" -> [a EXCEPT !.token = Masked \o a.token]
       [] a.type = "api_key" -> [a EXCEPT !.value = Masked]
       [] a.type = "basic" ->
            [a EXCEPT !.username = Masked, !.password = Masked]
       [] a.type = "cookie" ->
            [a EXCEPT !.cookies =
               [i \in 1..Len(a.cookies) |-> <<a.cookies[i][1], Masked>>]]
       [] a.type = "oauth2" ->
            [a EXCEPT !.client_secret = Masked,
                      !.refresh_token = Some(Masked)]
       [] OTHER -> a]

maskAuthRule(rule) ==
  LET a == JsonCopy(rule).auth IN
  [rule EXCEPT !.auth =
     CASE a.type = "bearer" -> [a EXCEPT !.token = Masked]
       [] a.type = "api_key" -> [a EXCEPT !.value = Masked]
       [] a.type = "basic" ->
            [a EXCEPT !.username = Masked, !.password = Masked]
       [] a.type = "cookie" ->
            [a EXCEPT !.cookies =
               [i \in 1..Len(a.cookies) |-> <<a.cookies[i][1], Masked>>]]
       [] a.type = "oauth2" ->
            [a EXCEPT !.client_secret = Masked,
                      !.refresh_token = Some(Masked)]
       [] OTHER -> a]

\* Caught losing the message
Caught_DropsMessage(message) ==
  [rule |-> Undefined, configFile |-> Undefined, error |-> Undefined]

\* the catch of test_auth
Caught(message) ==
  [rule |-> Undefined, configFile |-> Undefined, error |-> Some(message)]

\* the object test_auth returns
test_auth(url, fs) ==
  LET loaded == loadConfig(fs) IN
  IF ~loaded.ok THEN Caught(loaded.message)
  ELSE
    LET config == loaded.config
        configFile == findConfigFile(fs)
        rule == findMatchingRule(url, config.auth_rules)
    IN
    IF rule # Undefined /\ ~TruthyBool(VerboseOf(config))
    THEN [rule |-> Some(maskAuthRule(rule[1])),
          configFile |-> IF configFile # Undefined
                         THEN Some("config file has used") ELSE Undefined,
          error |-> Undefined]
    ELSE [rule |-> rule,
          configFile |-> IF configFile # Undefined THEN configFile
                         ELSE Some("No config file found"),
          error |-> Undefined]

(***************************************************************************)
(* The configurations, arguments and transport answers the invocations are *)
(* run with.                                                               *)
(***************************************************************************)
OAuthPlain ==
  [type |-> "oauth2", token_url |-> "https://auth.io/token",
   client_id |-> "cid", client_secret |-> "secret",
   scope |-> Undefined, refresh_token |-> Undefined]

OAuthRefresh ==
  [type |-> "oauth2", token_url |-> "https://auth.io/token",
   client_id |-> "rid", client_secret |-> "secret2",
   scope |-> Some("read"), refresh_token |-> Some("rt")]

\* scope and refresh_token present and empty
OAuthEmpty ==
  [type |-> "oauth2", token_url |-> "https://auth.io/token",
   client_id |-> "eid", client_secret |-> "secret3",
   scope |-> Some(""), refresh_token |-> Some("")]

\* a client_id that holds the character the cache key is joined with
OAuthBarInId ==
  [type |-> "oauth2", token_url |-> "https://auth.io/token",
   client_id |-> "x|y", client_secret |-> "secret4",
   scope |-> Undefined, refresh_token |-> Undefined]

\* a token_url that holds it
OAuthBarInUrl ==
  [type |-> "oauth2", token_url |-> "https://auth.io/token|x",
   client_id |-> "y", client_secret |-> "secret5",
   scope |-> Undefined, refresh_token |-> Undefined]

ApiKeyAuth(value, in) ==
  [type |-> "api_key", key |-> "X-API-Key", value |-> value, in |-> in]

BasicAuth(username, password) ==
  [type |-> "basic", username |-> username, password |-> password]

\* cookies in the order of Object.entries
CookieAuth(cookies) == [type |-> "cookie", cookies |-> cookies]

\* a credential callback: what it does when called
FunctionAuth(returns, message) ==
  [type |-> "function",
   function |-> [returns |-> returns, message |-> message, token |-> "ft",
                 headers |-> ("X-Sig" :> "sig")]]

Rule(pattern, auth, enabled) ==
  [url_pattern |-> pattern, auth |-> auth,
   description |-> Undefined, enabled |-> enabled]

\* no global settings; the only rule matching b.a.io is disabled
ConfigPlain ==
  [auth_rules |->
     <<Rule(PatExactBA, BearerAuth("bt"), Some(FALSE)),
       Rule(PatExactA, OAuthPlain, Undefined)>>,
   global_settings |-> Undefined]

\* global settings; a disabled regex rule behind an enabled glob rule
ConfigGlobal ==
  [auth_rules |->
     <<Rule(PatGlobIo, OAuthRefresh, Some(TRUE)),
       Rule(PatExactBA, BearerAuth("bt"), Undefined),
       Rule(PatReShort, BearerAuth("rt"), Some(FALSE))>>,
   global_settings |->
     Some([default_timeout |-> Some(5000), max_retries |-> Some(3),
           user_agent |-> Some("UA/1"), verbose_test_auth |-> Undefined])]

\* two oauth2 rules, so two cache keys; an empty user_agent
ConfigTwoKeys ==
  [auth_rules |->
     <<Rule(PatExactA, OAuthPlain, Undefined),
       Rule(PatExactBA, OAuthEmpty, Undefined)>>,
   global_settings |->
     Some([default_timeout |-> Undefined, max_retries |-> Undefined,
           user_agent |-> Some(""), verbose_test_auth |-> Undefined])]

\* a callback that throws, and an API key put into the query
ConfigKinds ==
  [auth_rules |->
     <<Rule(PatExactA, FunctionAuth("throws", "boom"), Undefined),
       Rule(PatExactBA, ApiKeyAuth("k1", "query"), Undefined)>>,
   global_settings |-> Undefined]

\* two oauth2 rules of two clients at two token endpoints
ConfigBarKeys ==
  [auth_rules |->
     <<Rule(PatExactA, OAuthBarInId, Undefined),
       Rule(PatExactBA, OAuthBarInUrl, Undefined)>>,
   global_settings |-> Undefined]

ConfigPath == Some("/home/.mcp-auth-fetch.json")

GoodFile(config) ==
  [path |-> ConfigPath, readable |-> TRUE, refs |-> {"TOKEN"},
   json |-> TRUE, schema |-> TRUE, data |-> config]

FileSystems ==
  {GoodFile(ConfigPlain), GoodFile(ConfigGlobal),
   GoodFile(ConfigTwoKeys), GoodFile(ConfigKinds), GoodFile(ConfigBarKeys),
   [GoodFile(EmptyConfig) EXCEPT !.path = Undefined],
   [GoodFile(EmptyConfig) EXCEPT !.readable = FALSE],
   [GoodFile(EmptyConfig) EXCEPT !.refs = {"TOKEN", "ABSENT"}],
   [GoodFile(EmptyConfig) EXCEPT !.json = FALSE],
   [GoodFile(EmptyConfig) EXCEPT !.schema = FALSE]}

\* the arguments of a fetch_url call
FetchArgs ==
  {[url |-> UrlA, timeout |-> Undefined,
    headers |-> ("Authorization" :> "mine")],
   [url |-> UrlBA, timeout |-> Some(100),
    headers |-> ("User-Agent" :> "caller")]}

TestUrls == {UrlA, UrlBA, UrlBare}

TokenResponses ==
  {[kind |-> "reject", message |-> "connect ECONNREFUSED", status |-> 0,
    statusText |-> "", text |-> "", json |-> Undefined],
   [kind |-> "http", message |-> "", status |-> 401,
    statusText |-> "Unauthorized", text |-> "denied", json |-> Undefined],
   [kind |-> "http", message |-> "", status |-> 200,
    statusText |-> "OK", text |-> "<html>", json |-> Undefined]}
  \cup
  {[kind |-> "http", message |-> "", status |-> 200, statusText |-> "OK",
    text |-> "", json |-> Some(j)] :
     j \in {[access_token |-> "tok1", expires_in |-> 120],
            [access_token |-> "tok2", expires_in |-> 60]}}

ResourceResponses ==
  {[kind |-> "http", message |-> "", text |-> "body"],
   [kind |-> "reject", message |-> "socket hang up", text |-> ""]}

(***************************************************************************)
(* The state.                                                              *)
(***************************************************************************)
VARIABLES
  fsys,        \* the file system's configuration file
  now,         \* Date.now()
  tokenCache,  \* the module-level token cache: cache key -> entry
  calls,       \* the invocations: their arguments, locals and position
  mpc,         \* the matcher run: "ready", "returned", "again"
  mUrl,        \* the matcher run: the url argument
  mRules,      \* the matcher run: the rules argument (the caller's array)
  mResult,     \* the matcher run: the value returned
  fpc,         \* a function run: "ready", "returned"
  fIn,         \* a function run: the function's name and its arguments
  fOut         \* a function run: the value returned

vars ==
  <<fsys, now, tokenCache, calls, mpc, mUrl, mRules, mResult, fpc, fIn, fOut>>

matchVars == <<mpc, mUrl, mRules, mResult>>

fnVars == <<fpc, fIn, fOut>>

runVars == <<fsys, now, tokenCache, calls>>

Calls == 1..NCalls

\* an invocation that has not been made yet
IdleCall ==
  [pc |-> "idle", kind |-> "none", url |-> << >>, timeout |-> Undefined,
   headers |-> NoHeaders, rule |-> Undefined, cachedToken |-> Undefined,
   checkedAt |-> Undefined,
   response |-> Undefined, stored |-> Undefined, storedAt |-> Undefined,
   token |-> Undefined,
   finalTimeout |-> Undefined, timerArmed |-> FALSE, aborted |-> FALSE,
   sent |-> << >>, result |-> Undefined]

(***************************************************************************)
(* fetch_url as steps between its awaits.                                  *)
(***************************************************************************)
\* SendResource without the timer
SendResource_NoTimer(call, headers, query, config) ==
  [call EXCEPT !.pc = "resource_wait",
               !.finalTimeout = Some(FinalTimeout(call.timeout, config)),
               !.sent = Append(@, ResourceRequest(call.url, query, headers))]

\* arm the timer and hand the resource request to the transport
SendResource(call, headers, query, config) ==
  [call EXCEPT !.pc = "resource_wait",
               !.finalTimeout = Some(FinalTimeout(call.timeout, config)),
               !.timerArmed = TRUE,
               !.sent = Append(@, ResourceRequest(call.url, query, headers))]

\* AuthFailed without the return: the request is sent all the same
AuthFailed_FallsThrough(call, message) ==
  SendResource(call, call.headers, << >>, EmptyConfig)

\* the catch around the switch: return the message
AuthFailed(call, message) ==
  [call EXCEPT !.pc = "done",
               !.result = Some([text |-> AuthFailedMessage(message)])]

\* StartExchange without fetch_url waiting: the resource request goes out
\* with the token request
StartExchange_NoAwait(call, auth) ==
  [call EXCEPT !.pc = "token_wait",
               !.sent = <<TokenRequest(auth),
                          ResourceRequest(call.url, << >>, call.headers)>>]

\* StartExchange joining an exchange that is pending for the same cache key
\* instead of sending its own token request
StartExchange_JoinsPending(call, auth) ==
  IF \E c \in Calls :
       /\ calls[c].pc = "token_wait"
       /\ cacheKey(calls[c].rule[1].auth) = cacheKey(auth)
  THEN [call EXCEPT !.pc = "token_wait"]
  ELSE [call EXCEPT !.pc = "token_wait", !.sent = <<TokenRequest(auth)>>]

\* StartExchange with the timer armed before the token request goes out
StartExchange_ArmsTimer(call, auth) ==
  [call EXCEPT !.pc = "token_wait", !.timerArmed = TRUE,
               !.sent = <<TokenRequest(auth)>>]

\* getOAuth2Token on a cache miss, up to its await: the token request is
\* handed to the transport and fetch_url waits for getOAuth2Token
StartExchange(call, auth) ==
  [call EXCEPT !.pc = "token_wait", !.sent = <<TokenRequest(auth)>>]

\* getOAuth2Token on a cache hit: fetch_url goes on with the cached token
UseCached(call, cached, base, config) ==
  SendResource([call EXCEPT !.token = Some(cached[1].accessToken)],
               SetHeader(base, "Authorization", Bearer(cached[1].accessToken)),
               << >>, config)

\* from the call to the first await (or to the return)
FetchUrlBegin(a, fs, cache, t) ==
  LET call == [IdleCall EXCEPT !.kind = "fetch", !.url = a.url,
                               !.timeout = a.timeout, !.headers = a.headers]
      loaded == loadConfig(fs)
  IN
  IF ~loaded.ok
  THEN [call EXCEPT !.pc = "rejected",
                    !.result = Some([thrown |-> loaded.message])]
  ELSE
    LET config == loaded.config
        rule == findMatchingRule(a.url, config.auth_rules)
        base == BaseHeaders(a.headers, config)
    IN
    IF rule = Undefined THEN SendResource(call, base, << >>, config)
    ELSE
      LET auth == rule[1].auth
          matched == [call EXCEPT !.rule = rule]
      IN
      IF auth.type = "oauth2"
      THEN
        LET cached == CachedToken(cache, auth)
            checked == [matched EXCEPT !.cachedToken = cached,
                                       !.checkedAt = Some(t)]
        IN
        IF CacheHit(cached, t)
        THEN UseCached(checked, cached, base, config)
        ELSE StartExchange(checked, auth)
      ELSE
        LET applied == ApplyAuth(auth, a.url, base) IN
        IF applied.ok
        THEN SendResource(matched, applied.headers, applied.query, config)
        ELSE AuthFailed(matched, applied.message)

\* from the settled token request to the next await (or to the return)
TokenSettled(call, resp, config, t) ==
  LET outcome == TokenOutcome(resp, t)
      got == [call EXCEPT !.response = Some(resp)]
  IN
  IF outcome.ok
  THEN SendResource(
         [got EXCEPT !.stored = outcome.entry, !.storedAt = Some(t),
                     !.token = Some(outcome.entry[1].accessToken)],
         SetHeader(BaseHeaders(call.headers, config), "Authorization",
                   Bearer(outcome.entry[1].accessToken)),
         << >>, config)
  ELSE AuthFailed(got, outcome.message)

\* ResourceSettled sending the request again after a transport error when
\* max_retries is configured
ResourceSettled_RetriesOnError(call, resp) ==
  IF /\ resp.kind = "reject"
     /\ loadConfig(fsys).config.global_settings # Undefined
     /\ loadConfig(fsys).config.global_settings[1].max_retries # Undefined
  THEN [call EXCEPT !.sent = Append(@, call.sent[Len(call.sent)])]
  ELSE [call EXCEPT !.pc = "done", !.timerArmed = FALSE,
                    !.result = Some([text |-> IF resp.kind = "reject"
                                              THEN resp.message ELSE resp.text])]

\* ResourceSettled clearing the timer only when the fetch resolved
ResourceSettled_LeavesTimer(call, resp) ==
  [call EXCEPT !.pc = "done", !.timerArmed = (resp.kind = "reject"),
               !.result = Some([text |-> IF resp.kind = "reject"
                                         THEN resp.message ELSE resp.text])]

\* from the settled resource request to the return; finally clearTimeout
ResourceSettled(call, resp) ==
  [call EXCEPT !.pc = "done", !.timerArmed = FALSE,
               !.result = Some([text |-> IF resp.kind = "reject"
                                         THEN resp.message ELSE resp.text])]

\* Aborted sending the request again instead of returning
Aborted_Retries(call) ==
  [call EXCEPT !.aborted = TRUE,
               !.sent = Append(@, call.sent[Len(call.sent)])]

\* the timer fires while the resource request is pending: the request is
\* aborted, the catch returns the timeout message; finally clearTimeout
Aborted(call) ==
  [call EXCEPT !.pc = "done", !.timerArmed = FALSE, !.aborted = TRUE,
               !.result = Some([text |-> TimeoutMessage(call.finalTimeout[1])])]

\* the configuration a running fetch_url loaded when it began (fsys does
\* not change while the program runs)
ConfigOf(fs) == loadConfig(fs).config

(***************************************************************************)
(* The actions.                                                            *)
(***************************************************************************)
\* invocation slots are taken in order
MayStart(c) ==
  /\ calls[c].pc = "idle"
  /\ IF c = 1 THEN TRUE ELSE calls[c - 1].pc # "idle"

FetchUrlStart(c) ==
  /\ MayStart(c)
  /\ \E a \in FetchArgs :
       calls' = [calls EXCEPT ![c] = FetchUrlBegin(a, fsys, tokenCache, now)]
  /\ UNCHANGED <<fsys, now, tokenCache, matchVars, fnVars>>

TokenResponse(c) ==
  /\ calls[c].pc = "token_wait"
  /\ \E resp \in TokenResponses :
       /\ calls' = [calls EXCEPT ![c] =
                      TokenSettled(calls[c], resp, ConfigOf(fsys), now)]
       /\ tokenCache' = CacheAfter(tokenCache, calls[c].rule[1].auth,
                                   TokenOutcome(resp, now))
  /\ UNCHANGED <<fsys, now, matchVars, fnVars>>

ResourceResponse(c) ==
  /\ calls[c].pc = "resource_wait"
  /\ \E resp \in ResourceResponses :
       calls' = [calls EXCEPT ![c] = ResourceSettled(calls[c], resp)]
  /\ UNCHANGED <<fsys, now, tokenCache, matchVars, fnVars>>

TimerFire(c) ==
  /\ calls[c].timerArmed
  /\ calls[c].pc = "resource_wait"
  /\ calls' = [calls EXCEPT ![c] = Aborted(calls[c])]
  /\ UNCHANGED <<fsys, now, tokenCache, matchVars, fnVars>>

\* TestAuth fetching a token when the matched rule is an oauth2 rule
TestAuth_FetchesToken(c) ==
  /\ MayStart(c)
  /\ \E u \in TestUrls :
       LET loaded == loadConfig(fsys)
           rule == IF loaded.ok THEN findMatchingRule(u, loaded.config.auth_rules)
                   ELSE Undefined
           call == [IdleCall EXCEPT !.kind = "test", !.url = u, !.pc = "done",
                                    !.result = Some(test_auth(u, fsys))]
       IN
       IF rule # Undefined /\ rule[1].auth.type = "oauth2"
       THEN /\ calls' = [calls EXCEPT ![c] =
                           [call EXCEPT !.sent = <<TokenRequest(rule[1].auth)>>]]
            /\ tokenCache' =
                 [k \in DOMAIN tokenCache \cup {cacheKey(rule[1].auth)} |->
                    [accessToken |-> "tok1", expiresAt |-> now]]
       ELSE /\ calls' = [calls EXCEPT ![c] = call]
            /\ tokenCache' = tokenCache
  /\ UNCHANGED <<fsys, now, matchVars, fnVars>>

TestAuth(c) ==
  /\ MayStart(c)
  /\ \E u \in TestUrls :
       calls' = [calls EXCEPT ![c] =
                   [IdleCall EXCEPT !.kind = "test", !.url = u, !.pc = "done",
                                    !.result = Some(test_auth(u, fsys))]]
  /\ UNCHANGED <<fsys, now, tokenCache, matchVars, fnVars>>

Tick ==
  /\ now + TickMs <= MaxNow
  /\ now' = now + TickMs
  /\ UNCHANGED <<fsys, tokenCache, calls, matchVars, fnVars>>

Init ==
  /\ fsys \in FileSystems
  /\ now = 0
  /\ tokenCache = << >>
  /\ calls = [c \in Calls |-> IdleCall]
  /\ mpc = "off"
  /\ mUrl = << >>
  /\ mRules = << >>
  /\ mResult = Undefined
  /\ fpc = "off"
  /\ fIn = << >>
  /\ fOut = Undefined

Next ==
  \/ \E c \in Calls : FetchUrlStart(c)
  \/ \E c \in Calls : TokenResponse(c)
  \/ \E c \in Calls : ResourceResponse(c)
  \/ \E c \in Calls : TimerFire(c)
  \/ \E c \in Calls : TestAuth(c)
  \/ Tick

Spec == Init /\ [][Next]_vars

\* the event loop runs the callback of a timer that stays armed
LiveSpec == Spec /\ \A c \in Calls : WF_vars(TimerFire(c))

(***************************************************************************)
(* The matcher alone, on every rule list and URL of its inputs.            *)
(***************************************************************************)
\* the caller's array after findMatchingRule: filter builds a new array,
\* which is the one sorted
\* the caller's list had activeRules.sort(...) sorted the list itself
RulesAfterFind_SortsCaller(rules) == SortRules(rules)

\* the caller's list after the call: filter builds a new array, and the
\* sort runs on that array
RulesAfterFind(rules) == rules

\* one call; the caller may call again with the same URL and list
MatchCall ==
  /\ mpc \in {"ready", "returned"}
  /\ mpc' = IF mpc = "ready" THEN "returned" ELSE "again"
  /\ mResult' = findMatchingRule(mUrl, mRules)
  /\ mRules' = RulesAfterFind(mRules)
  /\ UNCHANGED <<mUrl, runVars, fnVars>>

MatchInit ==
  /\ fsys = GoodFile(EmptyConfig)
  /\ now = 0
  /\ tokenCache = << >>
  /\ calls = [c \in Calls |-> IdleCall]
  /\ mpc = "ready"
  /\ mUrl \in MatchUrls
  /\ mRules \in RuleLists
  /\ mResult = Undefined
  /\ fpc = "off"
  /\ fIn = << >>
  /\ fOut = Undefined

MatchNext == MatchCall

MatchSpec == MatchInit /\ [][MatchNext]_vars

(***************************************************************************)
(* getDomain, maskAuthRule and test_auth alone, on inputs of their own.    *)
(***************************************************************************)
MaxMasks == 2       \* times maskAuthRule is applied to its own result

UrlPort == <<"h","t","t","p",":","/","/","a",".","i","o",":","8","1","/","x">>
UrlHttpsPort == <<"h","t","t","p","s",":","/","/","b",".","i","o",":","4","4","3">>
UrlOtherDefault == <<"h","t","t","p","s",":","/","/","a",".","i","o",":","8","0">>
UrlUpperScheme == <<"H","T","T","P",":","/","/","a",".","i","o","/">>
UrlHostPort == <<"a",".","i","o",":","8","0">>
UrlWords == <<"n","o","t"," ","a"," ","u","r","l">>
UrlNoHost == <<"h","t","t","p",":","/","/">>
UrlEmpty == << >>

DomainUrls ==
  MatchUrls \cup {UrlPort, UrlHttpsPort, UrlOtherDefault, UrlUpperScheme,
                  UrlHostPort, UrlWords, UrlNoHost, UrlEmpty}

\* rules of every auth kind, some differing only in their secrets
MaskRules ==
  {Rule(PatExactA, auth, Undefined) :
     auth \in {BearerAuth("t1"), BearerAuth("t2"),
               ApiKeyAuth("k1", "header"), ApiKeyAuth("k2", "header"),
               ApiKeyAuth("k1", "query"),
               BasicAuth("u1", "p1"), BasicAuth("u2", "p2"),
               BasicAuth("u1", "p2"),
               CookieAuth(<<(<<"sid", "1">>), (<<"tz", "a">>)>>),
               CookieAuth(<<(<<"sid", "2">>), (<<"tz", "b">>)>>),
               CookieAuth(<<(<<"uid", "1">>)>>),
               CookieAuth(<< >>),
               OAuthPlain, [OAuthPlain EXCEPT !.client_secret = "other"],
               OAuthRefresh, [OAuthRefresh EXCEPT !.refresh_token = Some("rt2")],
               OAuthEmpty,
               FunctionAuth("token", ""), FunctionAuth("throws", "boom")}}
  \cup {[Rule(PatExactA, BearerAuth("t1"), Undefined)
          EXCEPT !.description = Some("t1")]}

Settings(verbose) ==
  Some([default_timeout |-> Undefined, max_retries |-> Undefined,
        user_agent |-> Undefined, verbose_test_auth |-> verbose])

\* configurations of one rule
MaskConfigs ==
  {[auth_rules |-> <<r>>, global_settings |-> g] :
     r \in MaskRules,
     g \in {Undefined, Settings(Some(FALSE)), Settings(Some(TRUE))}}

FnInputs ==
  {[fn |-> "getDomain", url |-> u] : u \in DomainUrls}
  \cup {[fn |-> "maskAuthRule", rule |-> r] : r \in MaskRules}
  \cup {[fn |-> "test_auth", url |-> u, config |-> c1, other |-> c2] :
          u \in TestUrls, c1 \in MaskConfigs, c2 \in MaskConfigs}

GetDomainCall ==
  /\ fpc = "ready"
  /\ fIn.fn = "getDomain"
  /\ fOut' = getDomain(fIn.url)
  /\ fpc' = "returned"
  /\ UNCHANGED <<fIn, runVars, matchVars>>

\* maskAuthRule on the rule, and then on what it returned
MaskCall ==
  /\ fpc \in {"ready", "returned"}
  /\ fIn.fn = "maskAuthRule"
  /\ Len(fOut) < MaxMasks
  /\ fOut' = Append(fOut, maskAuthRule(IF fOut = << >> THEN fIn.rule
                                       ELSE fOut[Len(fOut)]))
  /\ fpc' = "returned"
  /\ UNCHANGED <<fIn, runVars, matchVars>>

\* test_auth under two configurations
TestAuthPairCall ==
  /\ fpc = "ready"
  /\ fIn.fn = "test_auth"
  /\ fOut' = <<test_auth(fIn.url, GoodFile(fIn.config)),
               test_auth(fIn.url, GoodFile(fIn.other))>>
  /\ fpc' = "returned"
  /\ UNCHANGED <<fIn, runVars, matchVars>>

FnInit ==
  /\ fsys = GoodFile(EmptyConfig)
  /\ now = 0
  /\ tokenCache = << >>
  /\ calls = [c \in Calls |-> IdleCall]
  /\ mpc = "off"
  /\ mUrl = << >>
  /\ mRules = << >>
  /\ mResult = Undefined
  /\ fpc = "ready"
  /\ fIn \in FnInputs
  /\ fOut = << >>

FnNext ==
  \/ GetDomainCall
  \/ MaskCall
  \/ TestAuthPairCall

FnSpec == FnInit /\ [][FnNext]_vars

(***************************************************************************)
(* Properties.                                                             *)
(***************************************************************************)
IsFetch(c) == calls[c].kind = "fetch"

IsOAuthCall(c) ==
  /\ IsFetch(c)
  /\ calls[c].rule # Undefined
  /\ calls[c].rule[1].auth.type = "oauth2"

RequestsOf(c, kind) ==
  {i \in 1..Len(calls[c].sent) : calls[c].sent[i].kind = kind}

\* the second of two calls on one cache key read the entry the first one
\* stored, at a time before that entry's expires_at
ReadsFreshEntryOf(c1, c2) ==
  /\ c1 # c2
  /\ IsOAuthCall(c1)
  /\ IsOAuthCall(c2)
  /\ cacheKey(calls[c1].rule[1].auth) = cacheKey(calls[c2].rule[1].auth)
  /\ calls[c1].stored # Undefined
  /\ calls[c2].cachedToken = calls[c1].stored
  /\ calls[c2].checkedAt[1] < calls[c1].stored[1].expiresAt

\* C1: when a fetch_url call reads, before its expires_at, the cache entry
\* that an earlier call on the same (token_url, client_id) stored, the two
\* calls together make exactly one token request: the second makes none,
\* and its only request is the resource request carrying the access token
\* that the first call's exchange returned.
C1_SecondCallUsesCachedToken ==
  \A c1, c2 \in Calls :
    ReadsFreshEntryOf(c1, c2) =>
      /\ Cardinality(RequestsOf(c1, "token")) = 1
      /\ RequestsOf(c2, "token") = {}
      /\ Len(calls[c2].sent) = 1
      /\ calls[c2].sent[1].kind = "resource"
      /\ calls[c2].sent[1].headers["Authorization"]
           = "Bearer " \o calls[c1].response[1].json[1].access_token

C1_Witness ==
  \E c1, c2 \in Calls :
    /\ ReadsFreshEntryOf(c1, c2)
    /\ calls[c1].pc = "done"
    /\ calls[c2].pc = "done"
    /\ calls[c2].checkedAt[1] > 0
    /\ calls[c2].result = Some([text |-> "body"])

\* the token endpoint answered a call with a status outside 200..299
GotNon2xx(c) ==
  /\ IsFetch(c)
  /\ calls[c].response # Undefined
  /\ calls[c].response[1].kind = "http"
  /\ ~(calls[c].response[1].status \in 200..299)

\* C2: when the token endpoint answers with a non-2xx status, fetch_url
\* returns "Authentication failed: Failed to fetch OAuth2 token: <status>
\* <statusText> - <body>" and the token request is the only request the
\* invocation makes.
C2_Non2xxFailsAuthentication ==
  \A c \in Calls :
    GotNon2xx(c) =>
      /\ calls[c].pc = "done"
      /\ calls[c].result =
           Some([text |-> "Authentication failed: Failed to fetch OAuth2 token: "
                          \o ToString(calls[c].response[1].status) \o " "
                          \o calls[c].response[1].statusText \o " - "
                          \o calls[c].response[1].text])
      /\ Len(calls[c].sent) = 1
      /\ calls[c].sent[1].kind = "token"

C2_Witness ==
  \E c \in Calls :
    /\ GotNon2xx(c)
    /\ calls[c].result =
         Some([text |-> "Authentication failed: Failed to fetch OAuth2 token: 401 Unauthorized - denied"])

\* the ways a token exchange fails: the transport rejects, the status is
\* not 2xx, the body of a 2xx answer is not JSON
FailedExchange(resp) ==
  \/ resp.kind = "reject"
  \/ ~(resp.status \in 200..299)
  \/ resp.json = Undefined

\* C3: the step in which a call's token exchange fails leaves the token
\* cache as it was: no key is added or removed and no entry changes.
C3_FailedExchangeKeepsCache ==
  [][\A c \in Calls :
       (/\ calls[c].pc = "token_wait"
        /\ calls'[c].response # Undefined
        /\ FailedExchange(calls'[c].response[1]))
       => tokenCache' = tokenCache]_vars

\* a call failed its exchange after reading a stale entry, which is still
\* there
C3_Witness ==
  \E c \in Calls :
    /\ IsOAuthCall(c)
    /\ calls[c].response # Undefined
    /\ FailedExchange(calls[c].response[1])
    /\ calls[c].cachedToken # Undefined
    /\ calls[c].checkedAt[1] >= calls[c].cachedToken[1].expiresAt
    /\ cacheKey(calls[c].rule[1].auth) \in DOMAIN tokenCache
    /\ tokenCache[cacheKey(calls[c].rule[1].auth)] = calls[c].cachedToken[1]

\* the rules of the matcher run that are enabled and match the URL's domain
Matching ==
  {i \in 1..Len(mRules) :
     /\ mRules[i].enabled # Some(FALSE)
     /\ RuleMatches(mRules[i], getDomain(mUrl))}

IsRegexRule(rule) == StartsWith(rule.url_pattern, "/")

\* C4: whenever an enabled regex rule that compiles matches the domain of
\* the URL, findMatchingRule returns a regex rule, whatever the order of
\* the list and whatever other rules match.
C4_RegexRuleWins ==
  (/\ mpc = "returned"
   /\ getDomain(mUrl) # << >>
   /\ \E i \in Matching : IsRegexRule(mRules[i]))
  => /\ mResult # Undefined
     /\ IsRegexRule(mResult[1])

\* a regex rule declared last wins over an exact and a glob rule that match
C4_Witness ==
  /\ mpc = "returned"
  /\ Len(mRules) = 3
  /\ Matching = {1, 2, 3}
  /\ mRules[1].url_pattern = PatExactA
  /\ mRules[2].url_pattern = PatGlobIo
  /\ IsRegexRule(mRules[3])
  /\ mResult = Some(mRules[3])

\* regex 1, exact literal 2, glob 3
Tier(rule) ==
  IF StartsWith(rule.url_pattern, "/") THEN 1
  ELSE IF Includes(rule.url_pattern, "*") THEN 3
  ELSE 2

\* C5: among the enabled rules that match the domain, findMatchingRule
\* returns one of the highest tier present (regex, then exact literal, then
\* glob) and, within that tier, one of the greatest pattern length; this in
\* each of the three tiers.
C5_HighestTierLongestPattern ==
  (/\ mpc = "returned"
   /\ getDomain(mUrl) # << >>
   /\ Matching # {})
  => /\ mResult # Undefined
     /\ \A i \in Matching :
          /\ Tier(mResult[1]) <= Tier(mRules[i])
          /\ Tier(mResult[1]) = Tier(mRules[i])
               => Len(mResult[1].url_pattern) >= Len(mRules[i].url_pattern)

Disabled(rule) == rule.enabled = Some(FALSE)

\* C6: a rule with enabled: false is never the rule findMatchingRule
\* returns, never the rule test_auth reports and never the rule fetch_url
\* applies: no request carries its credential.
C6_DisabledRuleNeverUsed ==
  /\ \A u \in TestUrls :
       LET r == findMatchingRule(u, ConfigOf(fsys).auth_rules) IN
       r # Undefined => ~Disabled(r[1])
  /\ \A c \in Calls :
       /\ calls[c].rule # Undefined => ~Disabled(calls[c].rule[1])
       /\ (calls[c].kind = "test" /\ calls[c].result[1].rule # Undefined)
            => ~Disabled(calls[c].result[1].rule[1])
       /\ \A i \in 1..Len(calls[c].sent) :
          \A k \in 1..Len(ConfigOf(fsys).auth_rules) :
            LET d == ConfigOf(fsys).auth_rules[k] IN
            (/\ Disabled(d)
             /\ d.auth.type = "bearer"
             /\ "Authorization" \in DOMAIN calls[c].sent[i].headers)
            => calls[c].sent[i].headers["Authorization"]
                 # "Bearer " \o d.auth.token

\* a fetch_url on a URL whose domain only a disabled rule matches went out
\* with no credential
C6_Witness ==
  \E c \in Calls :
    /\ IsFetch(c)
    /\ calls[c].pc = "done"
    /\ calls[c].rule = Undefined
    /\ \E k \in 1..Len(ConfigOf(fsys).auth_rules) :
         /\ Disabled(ConfigOf(fsys).auth_rules[k])
         /\ RuleMatches(ConfigOf(fsys).auth_rules[k], getDomain(calls[c].url))
    /\ Len(calls[c].sent) = 1
    /\ "Authorization" \notin DOMAIN calls[c].sent[1].headers

\* C7: fetch_url never raises: whatever fails, loading the configuration
\* included, it ends by returning a string.
C7_FetchUrlNeverRaises ==
  \A c \in Calls :
    IsFetch(c) =>
      /\ calls[c].pc # "rejected"
      /\ calls[c].pc = "done" => DOMAIN calls[c].result[1] = {"text"}

\* C8: test_auth never raises: when loading the configuration fails it
\* returns rule null with the failure's message as error, and when there is
\* no configuration file it returns rule null and no error.
C8_TestAuthReturnsErrors ==
  \A c \in Calls :
    calls[c].kind = "test" =>
      /\ calls[c].pc = "done"
      /\ DOMAIN calls[c].result[1] = {"rule", "configFile", "error"}
      /\ ~loadConfig(fsys).ok
           => /\ calls[c].result[1].rule = Undefined
              /\ calls[c].result[1].error = Some(loadConfig(fsys).message)
      /\ fsys.path = Undefined
           => /\ calls[c].result[1].rule = Undefined
              /\ calls[c].result[1].error = Undefined

C8_Witness ==
  \E c \in Calls :
    /\ calls[c].kind = "test"
    /\ ~fsys.readable
    /\ calls[c].result[1].rule = Undefined
    /\ calls[c].result[1].error = Some("Failed to read config")

\* the timeout in force for a call: the argument, else the configured
\* default_timeout, else 30000
EffectiveTimeout(c) ==
  IF calls[c].timeout # Undefined THEN calls[c].timeout[1]
  ELSE IF /\ ConfigOf(fsys).global_settings # Undefined
          /\ ConfigOf(fsys).global_settings[1].default_timeout # Undefined
  THEN ConfigOf(fsys).global_settings[1].default_timeout[1]
  ELSE 30000

\* C9: when the timer fires before the resource request has settled,
\* fetch_url returns "Request timed out after <effective timeout>ms" and
\* has made the resource request once: nothing is sent again.
C9_TimeoutEndsTheCall ==
  \A c \in Calls :
    calls[c].aborted =>
      /\ calls[c].pc = "done"
      /\ calls[c].result =
           Some([text |-> "Request timed out after "
                          \o ToString(EffectiveTimeout(c)) \o "ms"])
      /\ Cardinality(RequestsOf(c, "resource")) = 1
      /\ calls[c].sent[Len(calls[c].sent)].kind = "resource"

C9_Witness ==
  \E c \in Calls :
    /\ calls[c].aborted
    /\ calls[c].timeout = Some(100)
    /\ ConfigOf(fsys).global_settings # Undefined
    /\ calls[c].result = Some([text |-> "Request timed out after 100ms"])

\* the access token getOAuth2Token returned to a call: the one in the
\* answer to its own token request, or the one of the entry it read
TokenReturnedTo(c) ==
  IF calls[c].response # Undefined
  THEN calls[c].response[1].json[1].access_token
  ELSE calls[c].cachedToken[1].accessToken

\* C10: in a fetch_url call on an oauth2 rule no resource request is out
\* while the call's token exchange is pending; the resource request comes
\* after the token request and carries, as its Authorization header, the
\* token getOAuth2Token returned to that call.
C10_TokenBeforeResource ==
  \A c \in Calls :
    IsOAuthCall(c) =>
      /\ calls[c].pc = "token_wait" => RequestsOf(c, "resource") = {}
      /\ \A i \in RequestsOf(c, "resource") :
           /\ i = Len(calls[c].sent)
           /\ \A j \in RequestsOf(c, "token") : j < i
           /\ calls[c].sent[i].headers["Authorization"]
                = "Bearer " \o TokenReturnedTo(c)

\* two calls exchanged tokens for one key at once; the later answer has
\* overwritten the cache, and the first call's request carries its own token
C10_Witness ==
  \E c \in Calls :
    /\ IsOAuthCall(c)
    /\ calls[c].pc = "resource_wait"
    /\ Len(calls[c].sent) = 2
    /\ calls[c].response # Undefined
    /\ calls[c].sent[2].headers["Authorization"] = "Bearer tok1"
    /\ tokenCache[cacheKey(calls[c].rule[1].auth)].accessToken = "tok2"

\* the call read the cache and found no entry, or one with expires_at not
\* after the time of the read
ReadMissed(c) ==
  /\ IsOAuthCall(c)
  /\ calls[c].checkedAt # Undefined
  /\ \/ calls[c].cachedToken = Undefined
     \/ calls[c].checkedAt[1] >= calls[c].cachedToken[1].expiresAt

\* C11: token exchanges are not deduplicated: of two fetch_url calls on
\* one (token_url, client_id) that both read the cache while the entry was
\* absent or stale, each sends a token request of its own, whether or not
\* the other's exchange is still pending.
C11_NoDeduplication ==
  \A c1, c2 \in Calls :
    (/\ c1 # c2
     /\ ReadMissed(c1)
     /\ ReadMissed(c2)
     /\ cacheKey(calls[c1].rule[1].auth) = cacheKey(calls[c2].rule[1].auth))
    => /\ Cardinality(RequestsOf(c1, "token")) = 1
       /\ Cardinality(RequestsOf(c2, "token")) = 1

\* two exchanges in flight for one cache key
C11_Witness ==
  \E c1, c2 \in Calls :
    /\ c1 # c2
    /\ ReadMissed(c1)
    /\ ReadMissed(c2)
    /\ cacheKey(calls[c1].rule[1].auth) = cacheKey(calls[c2].rule[1].auth)
    /\ calls[c1].pc = "token_wait"
    /\ calls[c2].pc = "token_wait"
    /\ calls[c1].sent = <<TokenRequest(calls[c1].rule[1].auth)>>
    /\ calls[c2].sent = <<TokenRequest(calls[c2].rule[1].auth)>>
    /\ tokenCache = << >>

\* an auth method with the values of its sensitive fields blanked
\* (bearer.token, api_key.value, basic.username, basic.password, the cookie
\* values, oauth2.client_secret, oauth2.refresh_token)
WithoutSecrets(a) ==
  IF a.type = "bearer" THEN [a EXCEPT !.token = ""]
  ELSE IF a.type = "api_key" THEN [a EXCEPT !.value = ""]
  ELSE IF a.type = "basic" THEN [a EXCEPT !.username = "", !.password = ""]
  ELSE IF a.type = "cookie"
  THEN [a EXCEPT !.cookies = [i \in 1..Len(a.cookies) |-> a.cookies[i][1]]]
  ELSE IF a.type = "oauth2"
  THEN [a EXCEPT !.client_secret = "", !.refresh_token = ""]
  ELSE a

\* two configurations differ at most in the values of sensitive fields
DifferOnlyInSecrets(c1, c2) ==
  /\ c1.global_settings = c2.global_settings
  /\ Len(c1.auth_rules) = Len(c2.auth_rules)
  /\ \A i \in 1..Len(c1.auth_rules) :
       /\ c1.auth_rules[i].url_pattern = c2.auth_rules[i].url_pattern
       /\ c1.auth_rules[i].description = c2.auth_rules[i].description
       /\ c1.auth_rules[i].enabled = c2.auth_rules[i].enabled
       /\ c1.auth_rules[i].auth.type = c2.auth_rules[i].auth.type
       /\ WithoutSecrets(c1.auth_rules[i].auth)
            = WithoutSecrets(c2.auth_rules[i].auth)

VerboseOn(config) ==
  /\ config.global_settings # Undefined
  /\ config.global_settings[1].verbose_test_auth = Some(TRUE)

\* every sensitive field of the auth method shows the mask
ShowsMask(a) ==
  /\ a.type = "bearer" => a.token = "***MASKED***"
  /\ a.type = "api_key" => a.value = "***MASKED***"
  /\ a.type = "basic"
       => a.username = "***MASKED***" /\ a.password = "***MASKED***"
  /\ a.type = "cookie"
       => \A i \in 1..Len(a.cookies) : a.cookies[i][2] = "***MASKED***"
  /\ a.type = "oauth2"
       => /\ a.client_secret = "***MASKED***"
          /\ a.refresh_token = Some("***MASKED***")

\* C12: with verbose_test_auth not true, test_auth run under two
\* configurations that differ only in the values of sensitive fields
\* returns the same result for the same URL, and every sensitive field of
\* a rule it returns shows "***MASKED***".
C12_TestAuthHidesSecrets ==
  (/\ fpc = "returned"
   /\ fIn.fn = "test_auth"
   /\ DifferOnlyInSecrets(fIn.config, fIn.other)
   /\ ~VerboseOn(fIn.config))
  => /\ fOut[1] = fOut[2]
     /\ fOut[1].rule # Undefined => ShowsMask(fOut[1].rule[1].auth)

\* two basic rules with different user names and passwords, one result
C12_Witness ==
  /\ fpc = "returned"
  /\ fIn.fn = "test_auth"
  /\ DifferOnlyInSecrets(fIn.config, fIn.other)
  /\ ~VerboseOn(fIn.config)
  /\ fIn.config.auth_rules[1].auth = BasicAuth("u1", "p1")
  /\ fIn.other.auth_rules[1].auth = BasicAuth("u2", "p2")
  /\ fOut[1].rule # Undefined
  /\ fOut[1].rule[1].auth.username = "***MASKED***"
  /\ fOut[1] = fOut[2]

\* C13: masking is idempotent: maskAuthRule applied to a rule it returned
\* returns that rule unchanged, for every auth kind.
C13_MaskIdempotent ==
  (fpc = "returned" /\ fIn.fn = "maskAuthRule")
  => \A i \in 2..Len(fOut) : fOut[i] = fOut[i - 1]

C13_Witness ==
  /\ fpc = "returned"
  /\ fIn.fn = "maskAuthRule"
  /\ fIn.rule.auth = BearerAuth("t1")
  /\ Len(fOut) = 2
  /\ fOut[1] # fIn.rule
  /\ fOut[2] = fOut[1]

\* the values a form body carries under a name
ParamValues(params, name) ==
  {params[i][2] : i \in {j \in 1..Len(params) : params[j][1] = name}}

\* the token requests made so far, each with the auth method of its rule
TokenRequestsSent ==
  UNION {{[auth |-> calls[c].rule[1].auth, params |-> calls[c].sent[i].params] :
            i \in RequestsOf(c, "token")} :
         c \in {d \in Calls : IsOAuthCall(d)}}

\* C14 as stated: every token request carries client_id and client_secret,
\* and scope when the rule has one; when the rule has a refresh_token its
\* grant_type is refresh_token and it carries that refresh_token, otherwise
\* its grant_type is client_credentials and it carries no refresh_token.
C14_GrantTypeFollowsRefreshToken ==
  \A r \in TokenRequestsSent :
    /\ ParamValues(r.params, "client_id") = {r.auth.client_id}
    /\ ParamValues(r.params, "client_secret") = {r.auth.client_secret}
    /\ r.auth.scope # Undefined
         => ParamValues(r.params, "scope") = {r.auth.scope[1]}
    /\ IF r.auth.refresh_token # Undefined
       THEN /\ ParamValues(r.params, "grant_type") = {"refresh_token"}
            /\ ParamValues(r.params, "refresh_token") = {r.auth.refresh_token[1]}
       ELSE /\ ParamValues(r.params, "grant_type") = {"client_credentials"}
            /\ ParamValues(r.params, "refresh_token") = {}

NonEmpty(opt) == opt # Undefined /\ Len(opt[1]) > 0

\* C14 amended: every token request carries client_id and client_secret,
\* and scope exactly when the rule's scope is a non-empty string; when the
\* rule's refresh_token is a non-empty string its grant_type is
\* refresh_token and it carries that refresh_token, and otherwise (absent
\* or empty) its grant_type is client_credentials and it carries no
\* refresh_token.
C14_GrantTypeFollowsNonEmptyRefreshToken ==
  \A r \in TokenRequestsSent :
    /\ ParamValues(r.params, "client_id") = {r.auth.client_id}
    /\ ParamValues(r.params, "client_secret") = {r.auth.client_secret}
    /\ ParamValues(r.params, "scope")
         = (IF NonEmpty(r.auth.scope) THEN {r.auth.scope[1]} ELSE {})
    /\ IF NonEmpty(r.auth.refresh_token)
       THEN /\ ParamValues(r.params, "grant_type") = {"refresh_token"}
            /\ ParamValues(r.params, "refresh_token") = {r.auth.refresh_token[1]}
       ELSE /\ ParamValues(r.params, "grant_type") = {"client_credentials"}
            /\ ParamValues(r.params, "refresh_token") = {}

\* a refresh-token exchange has been started
C14_Witness ==
  \E r \in TokenRequestsSent :
    /\ r.auth.refresh_token = Some("rt")
    /\ ParamValues(r.params, "grant_type") = {"refresh_token"}
    /\ ParamValues(r.params, "refresh_token") = {"rt"}
    /\ ParamValues(r.params, "scope") = {"read"}

\* the call got its token without an exchange of its own
ServedFromCache(c) ==
  /\ IsOAuthCall(c)
  /\ calls[c].token # Undefined
  /\ RequestsOf(c, "token") = {}

\* call c2 read the cache entry that call c1 stored for the same key
ReadsEntryOf(c1, c2) ==
  /\ c1 # c2
  /\ IsOAuthCall(c1)
  /\ IsOAuthCall(c2)
  /\ cacheKey(calls[c1].rule[1].auth) = cacheKey(calls[c2].rule[1].auth)
  /\ calls[c1].stored # Undefined
  /\ calls[c2].cachedToken = calls[c1].stored

\* C15: an entry's expires_at is its store time plus (expires_in - 60)
\* seconds; a call that reads the entry is served from the cache exactly
\* when it reads before expires_at, and then more than 60 seconds remain
\* of the lifetime the token endpoint announced, counted from the store
\* time.
C15_CachedTokenHasSixtySecondsLeft ==
  \A c1, c2 \in Calls :
    ReadsEntryOf(c1, c2) =>
      LET storedAt == calls[c1].storedAt[1]
          lifetime == calls[c1].response[1].json[1].expires_in * 1000
          readAt == calls[c2].checkedAt[1]
      IN
      /\ calls[c1].stored[1].expiresAt = storedAt + lifetime - 60 * 1000
      /\ ServedFromCache(c2) <=> readAt < calls[c1].stored[1].expiresAt
      /\ ServedFromCache(c2)
           => /\ readAt + 60 * 1000 < storedAt + lifetime
              /\ calls[c2].token[1] = calls[c1].response[1].json[1].access_token

\* a token announced for 120 seconds, handed out from the cache 30 seconds
\* after it was stored
C15_Witness ==
  \E c1, c2 \in Calls :
    /\ ReadsEntryOf(c1, c2)
    /\ ServedFromCache(c2)
    /\ calls[c1].response[1].json[1].expires_in = 120
    /\ calls[c2].checkedAt[1] = calls[c1].storedAt[1] + 30000

AuthFailureCause(c) ==
  IF ~IsFetch(c) \/ calls[c].rule = Undefined THEN {}
  ELSE
    LET a == calls[c].rule[1].auth
        resp == calls[c].response[1]
    IN
    IF a.type = "function"
    THEN IF a.function.returns = "throws" THEN {a.function.message} ELSE {}
    ELSE IF a.type = "api_key"
    THEN IF a.in = "query" /\ ~ParseUrl(calls[c].url).ok
         THEN {"Invalid URL"} ELSE {}
    ELSE IF a.type = "oauth2" /\ calls[c].response # Undefined
    THEN IF resp.kind = "reject" THEN {resp.message}
         ELSE IF ~(resp.status \in 200..299)
         THEN {"Failed to fetch OAuth2 token: " \o ToString(resp.status)
               \o " " \o resp.statusText \o " - " \o resp.text}
         ELSE IF resp.json = Undefined THEN {"invalid json response body"}
         ELSE {}
    ELSE {}

\* C17: when applying the matched rule's auth fails, whatever the cause,
\* fetch_url has returned "Authentication failed: <message of the cause>"
\* and has made no request to the requested URL.
C17_AuthFailureStopsTheCall ==
  \A c \in Calls :
    \A cause \in AuthFailureCause(c) :
      /\ calls[c].pc = "done"
      /\ calls[c].result = Some([text |-> "Authentication failed: " \o cause])
      /\ RequestsOf(c, "resource") = {}
      /\ ~calls[c].timerArmed

\* a callback threw: nothing was sent at all
C17_Witness ==
  \E c \in Calls :
    /\ AuthFailureCause(c) = {"boom"}
    /\ calls[c].rule[1].auth.type = "function"
    /\ calls[c].sent = << >>
    /\ calls[c].result = Some([text |-> "Authentication failed: boom"])

\* the enabled rules of the configuration whose pattern is a literal domain
\* (no regex delimiters, no "*") equal to the string
ExactRulesFor(config, text) ==
  {i \in 1..Len(config.auth_rules) :
     /\ config.auth_rules[i].enabled # Some(FALSE)
     /\ ~StartsWith(config.auth_rules[i].url_pattern, "/")
     /\ ~Includes(config.auth_rules[i].url_pattern, "*")
     /\ config.auth_rules[i].url_pattern = text}

\* C18: test_auth called with a bare domain (no scheme) that equals the
\* pattern of an enabled exact rule returns a rule and no error.
C18_BareDomainMatchesExactRule ==
  \A c \in Calls :
    (/\ calls[c].kind = "test"
     /\ loadConfig(fsys).ok
     /\ ~Includes(calls[c].url, "/")
     /\ ExactRulesFor(loadConfig(fsys).config, calls[c].url) # {})
    => /\ calls[c].result[1].rule # Undefined
       /\ calls[c].result[1].error = Undefined

\* where "://" begins in the text, 0 if nowhere
SchemeEnd(text) ==
  LET at == {i \in 1..(Len(text) - 2) :
               text[i] = ":" /\ text[i + 1] = "/" /\ text[i + 2] = "/"}
  IN IF at = {} THEN 0 ELSE CHOOSE i \in at : \A j \in at : i <= j

\* the authority as written: what stands between "://" and the next "/"
AuthorityWritten(text) ==
  LET from == SchemeEnd(text) + 3
      stop == {i \in from..Len(text) : text[i] = "/"}
      to == IF stop = {} THEN Len(text)
            ELSE (CHOOSE i \in stop : \A j \in stop : i <= j) - 1
  IN SubSeq(text, from, to)

\* a scheme, "://" and an authority that is not empty; no blank anywhere
WellFormedAbsolute(text) ==
  /\ SchemeEnd(text) > 1
  /\ \A i \in 1..Len(text) : text[i] # " "
  /\ \A i \in 1..(SchemeEnd(text) - 1) : text[i] \notin {":", "/", "."}
  /\ AuthorityWritten(text) # << >>

AuthorityNormalised(text) ==
  LET scheme == [i \in 1..(SchemeEnd(text) - 1) |-> ToLower(text[i])]
      written == AuthorityWritten(text)
      colons == {i \in 1..Len(written) : written[i] = ":"}
      colon == IF colons = {} THEN Len(written) + 1
               ELSE CHOOSE i \in colons : \A j \in colons : i <= j
      host == [i \in 1..(colon - 1) |-> ToLower(written[i])]
      port == SubSeq(written, colon + 1, Len(written))
  IN
  IF \/ port = << >>
     \/ (scheme = <<"h","t","t","p">> /\ port = <<"8","0">>)
     \/ (scheme = <<"h","t","t","p","s">> /\ port = <<"4","4","3">>)
  THEN host
  ELSE host \o <<":">> \o port

Settled(c) == calls[c].pc \in {"done", "rejected"}

\* C20: once a fetch_url invocation has settled (it returned the response
\* text, a transport error's message, the timeout message or the
\* authentication failure, or it rejected), the timeout timer it armed is
\* no longer armed; and while its resource request is pending the timer is
\* armed.
C20_TimerDisarmedWhenSettled ==
  \A c \in Calls :
    IsFetch(c) =>
      /\ Settled(c) => ~calls[c].timerArmed
      /\ calls[c].pc = "resource_wait" => calls[c].timerArmed

\* a transport error ended a call whose timer had been armed
C20_Witness ==
  \E c \in Calls :
    /\ IsFetch(c)
    /\ Settled(c)
    /\ calls[c].finalTimeout # Undefined
    /\ calls[c].result = Some([text |-> "socket hang up"])
    /\ ~calls[c].timerArmed

\* C21: the timeout does not cover the token exchange: while a call's
\* token exchange is pending its timer is not armed and its timeout is not
\* yet computed, and the call leaves that wait only in a step in which the
\* token request settles; it never returns while the endpoint stays silent.
C21_NoTimeoutDuringExchange ==
  /\ [](\A c \in Calls :
          calls[c].pc = "token_wait"
          => /\ ~calls[c].timerArmed
             /\ calls[c].finalTimeout = Undefined
             /\ calls[c].result = Undefined)
  /\ [][\A c \in Calls :
          (calls[c].pc = "token_wait" /\ calls'[c] # calls[c])
          => /\ calls[c].response = Undefined
             /\ calls'[c].response # Undefined]_vars

\* a call given a timeout of 100 ms is still waiting for its token 30
\* seconds after it read the cache
C21_Witness ==
  \E c \in Calls :
    /\ calls[c].pc = "token_wait"
    /\ calls[c].checkedAt # Undefined
    /\ calls[c].timeout = Some(100)
    /\ now >= calls[c].checkedAt[1] + 30000

MaxRetriesSet ==
  /\ ConfigOf(fsys).global_settings # Undefined
  /\ ConfigOf(fsys).global_settings[1].max_retries # Undefined

\* C22: one fetch_url invocation sends at most one token request and at
\* most one resource request, also after a failure or a timeout and also
\* when max_retries is configured; and a token request is sent only by an
\* invocation whose read of the cache found no entry or found one with
\* expires_at not after the time of the read.
C22_NoRetryNoEarlyRefresh ==
  \A c \in Calls :
    /\ Cardinality(RequestsOf(c, "token")) <= 1
    /\ Cardinality(RequestsOf(c, "resource")) <= 1
    /\ Len(calls[c].sent) <= 2
    /\ RequestsOf(c, "token") # {}
         => /\ calls[c].checkedAt # Undefined
            /\ \/ calls[c].cachedToken = Undefined
               \/ calls[c].checkedAt[1] >= calls[c].cachedToken[1].expiresAt

\* with max_retries 3 configured, a call ended by a transport error after
\* one token request and one resource request
C22_Witness ==
  \E c \in Calls :
    /\ MaxRetriesSet
    /\ calls[c].pc = "done"
    /\ calls[c].result = Some([text |-> "socket hang up"])
    /\ Cardinality(RequestsOf(c, "token")) = 1
    /\ Cardinality(RequestsOf(c, "resource")) = 1

\* the first map with the entries of the second written over it
Override(base, over) ==
  [k \in DOMAIN base \cup DOMAIN over |->
     IF k \in DOMAIN over THEN over[k] ELSE base[k]]

\* the headers the auth method of the call's rule writes
AuthHeadersOf(c) ==
  IF calls[c].rule = Undefined THEN << >>
  ELSE
    LET a == calls[c].rule[1].auth IN
    IF a.type = "bearer" THEN [k \in {"Authorization"} |-> "Bearer " \o a.token]
    ELSE IF a.type = "api_key"
    THEN IF a.in = "header" THEN [k \in {a.key} |-> a.value] ELSE << >>
    ELSE IF a.type = "basic"
    THEN [k \in {"Authorization"} |->
            "Basic " \o Base64(a.username \o ":" \o a.password)]
    ELSE IF a.type = "cookie"
    THEN [k \in {"Cookie"} |-> JoinCookies(a.cookies)]
    ELSE IF a.type = "oauth2"
    THEN [k \in {"Authorization"} |-> "Bearer " \o TokenReturnedTo(c)]
    ELSE IF a.function.returns = "token"
    THEN [k \in {"Authorization"} |-> "Bearer " \o a.function.token]
    ELSE a.function.headers

\* the resource requests' headers are the caller's, then the user agent
\* (when ua holds one), then the headers of the rule's auth
HeadersLayered(c, ua) ==
  \A i \in RequestsOf(c, "resource") :
    calls[c].sent[i].headers
      = Override(Override(calls[c].headers,
                          [k \in {"User-Agent" : x \in ua} |->
                             CHOOSE x \in ua : TRUE]),
                 AuthHeadersOf(c))

\* the headers object the caller handed over stays as it was
CallerHeadersKept ==
  [][\A c \in Calls :
       calls[c].pc # "idle" => calls'[c].headers = calls[c].headers]_vars

\* C23 as stated: the headers of the resource request are the caller's
\* headers, overridden by the global user_agent under "User-Agent" when
\* one is configured, overridden in turn by the headers the rule's auth
\* writes; the caller's headers object is not modified.
C23_HeadersLayered ==
  /\ [](\A c \in Calls :
          IsFetch(c) =>
            HeadersLayered(c, IF UserAgentOf(ConfigOf(fsys)) # Undefined
                              THEN {UserAgentOf(ConfigOf(fsys))[1]} ELSE {}))
  /\ CallerHeadersKept

\* C23 amended: the headers of the resource request are the caller's
\* headers, overridden by the global user_agent under "User-Agent" when
\* one is configured and is not the empty string, overridden in turn by
\* the headers the rule's auth writes; the caller's headers object is not
\* modified.
C23_HeadersLayeredNonEmptyAgent ==
  /\ [](\A c \in Calls :
          IsFetch(c) =>
            HeadersLayered(c, IF NonEmpty(UserAgentOf(ConfigOf(fsys)))
                              THEN {UserAgentOf(ConfigOf(fsys))[1]} ELSE {}))
  /\ CallerHeadersKept

\* the caller's User-Agent gave way to the configured one, and the rule's
\* bearer token was added
C23_Witness ==
  \E c \in Calls :
    /\ IsFetch(c)
    /\ calls[c].headers = ("User-Agent" :> "caller")
    /\ Len(calls[c].sent) = 1
    /\ calls[c].sent[1].headers
         = ("User-Agent" :> "UA/1") @@ ("Authorization" :> "Bearer bt")

\* C24: for a URL that has a domain, the rule findMatchingRule returns is
\* an element of the list it was given, is enabled, and its pattern matches
\* the domain; and it returns no rule exactly when no enabled rule of the
\* list matches the domain.
C24_SoundAndComplete ==
  (mpc = "returned" /\ getDomain(mUrl) # << >>)
  => /\ mResult # Undefined
          => \E i \in 1..Len(mRules) :
                /\ mResult[1] = mRules[i]
                /\ mRules[i].enabled # Some(FALSE)
                /\ RuleMatches(mRules[i], getDomain(mUrl))
     /\ mResult = Undefined <=> Matching = {}

\* the one matching rule stands last in the list, behind a disabled rule
\* that would match and a rule that does not match
C24_Witness ==
  /\ mpc = "returned"
  /\ mUrl = UrlBA
  /\ Len(mRules) = 3
  /\ mRules[1].enabled = Some(FALSE)
  /\ RuleMatches(mRules[1], getDomain(mUrl))
  /\ Matching = {3}
  /\ mResult = Some(mRules[3])

\* C25: when the URL does not parse as an absolute URL (getDomain returns
\* the empty string), findMatchingRule returns no rule, whatever the list:
\* also with an enabled "*" rule or a regex that matches the empty string
\* in it.
C25_NoDomainNoRule ==
  (mpc = "returned" /\ getDomain(mUrl) = << >>) => mResult = Undefined

\* a bare domain, a list with "*" and with /.*/, and no rule
C25_Witness ==
  /\ mpc = "returned"
  /\ mUrl = UrlBare
  /\ \E i \in 1..Len(mRules) :
       mRules[i].url_pattern = PatStar /\ mRules[i].enabled # Some(FALSE)
  /\ \E i \in 1..Len(mRules) :
       /\ mRules[i].url_pattern = PatReAny
       /\ RegexTest(Slice1m1(PatReAny), << >>)
  /\ mResult = Undefined

\* the list without its i-th rule
WithoutRule(rules, i) ==
  SubSeq(rules, 1, i - 1) \o SubSeq(rules, i + 1, Len(rules))

\* the regex rules of the matcher run whose pattern does not compile
BrokenRegexRules ==
  {i \in 1..Len(mRules) :
     /\ StartsWith(mRules[i].url_pattern, "/")
     /\ ~RegexCompiles(Slice1m1(mRules[i].url_pattern))}

\* C26: a regex rule whose pattern does not compile is skipped: the result
\* of findMatchingRule is its result for the list without that rule, and
\* it is never that rule.
C26_BrokenRegexSkipped ==
  mpc = "returned"
  => \A i \in BrokenRegexRules :
       /\ mResult = findMatchingRule(mUrl, WithoutRule(mRules, i))
       /\ mResult # Some(mRules[i])

\* the broken regex is tried first; the rule behind it is returned
C26_Witness ==
  /\ mpc = "returned"
  /\ mUrl = UrlA
  /\ Len(mRules) = 2
  /\ BrokenRegexRules = {1}
  /\ mRules[2].url_pattern = PatExactA
  /\ mRules[2].enabled # Some(FALSE)
  /\ mResult = Some(mRules[2])

\* C27: test_auth makes no request and leaves the token cache as it is,
\* for every URL and configuration: also when the rule it finds is an
\* oauth2 rule with no cache entry or a stale one.
C27_TestAuthTouchesNothing ==
  /\ [](\A c \in Calls :
          calls[c].kind = "test"
          => calls[c].sent = << >> /\ ~calls[c].timerArmed)
  /\ [][\A c \in Calls :
          (calls[c].pc = "idle" /\ calls'[c].kind = "test")
          => tokenCache' = tokenCache /\ now' = now]_vars

\* test_auth found an oauth2 rule whose cache entry is stale
C27_Witness ==
  \E c \in Calls :
    /\ calls[c].kind = "test"
    /\ calls[c].result[1].rule # Undefined
    /\ calls[c].result[1].rule[1].auth.type = "oauth2"
    /\ calls[c].result[1].rule[1].auth.client_id = "cid"
    /\ cacheKey(OAuthPlain) \in DOMAIN tokenCache
    /\ tokenCache[cacheKey(OAuthPlain)].expiresAt <= now

\* the fields of an auth method that are present: an optional field that
\* is absent is not among them
FieldsPresent(a) ==
  {f \in DOMAIN a :
     IF f \in {"scope", "refresh_token"} THEN a[f] # Undefined ELSE TRUE}

\* the fields of an auth method that masking is to replace
SensitiveFields(a) ==
  IF a.type = "bearer" THEN {"token"}
  ELSE IF a.type = "api_key" THEN {"value"}
  ELSE IF a.type = "basic" THEN {"username", "password"}
  ELSE IF a.type = "cookie" THEN {"cookies"}
  ELSE IF a.type = "oauth2" THEN {"client_secret", "refresh_token"}
  ELSE {}

\* C28: the masked copy of a rule has the fields the rule has, and every
\* field other than the sensitive ones (of the cookies: every cookie name)
\* has the value it has in the rule; an oauth2 rule without refresh_token
\* stays without one.  Stated for the rules a configuration file can hold
\* (bearer, api_key, basic, cookie, oauth2).
C28_MaskChangesOnlySecrets ==
  (fpc = "returned" /\ fIn.fn = "maskAuthRule"
   /\ fIn.rule.auth.type # "function")
  => LET in == fIn.rule
         out == fOut[1]
     IN
     /\ out.url_pattern = in.url_pattern
     /\ out.description = in.description
     /\ out.enabled = in.enabled
     /\ FieldsPresent(out.auth) = FieldsPresent(in.auth)
     /\ \A f \in FieldsPresent(in.auth) \ SensitiveFields(in.auth) :
          f \in DOMAIN out.auth /\ out.auth[f] = in.auth[f]
     /\ in.auth.type = "cookie"
          => /\ Len(out.auth.cookies) = Len(in.auth.cookies)
             /\ \A i \in 1..Len(in.auth.cookies) :
                  out.auth.cookies[i][1] = in.auth.cookies[i][1]

\* how a call whose resource request went out may end: the response body,
\* the message of a transport error, or the timeout message
ResourceEndings(c) ==
  {Some([text |-> r.text]) : r \in {x \in ResourceResponses : x.kind = "http"}}
  \cup {Some([text |-> r.message]) :
          r \in {x \in ResourceResponses : x.kind = "reject"}}
  \cup {Some([text |-> "Request timed out after "
                       \o ToString(EffectiveTimeout(c)) \o "ms"])}

\* C29: given that an armed timer fires, a fetch_url call whose
\* authentication step is over and whose resource request is out
\* eventually returns, whether or not the transport answers; it returns the
\* response body, a transport error's message or the timeout message.
C29_SettlesAfterAuthentication ==
  /\ \A c \in Calls :
       (calls[c].pc = "resource_wait") ~> (calls[c].pc = "done")
  /\ [](\A c \in Calls :
          (calls[c].pc = "done" /\ RequestsOf(c, "resource") # {})
          => calls[c].result \in ResourceEndings(c))

\* the transport never answered a call with no timeout of its own and no
\* configured default; the timer ended it
C29_Witness ==
  \E c \in Calls :
    /\ IsFetch(c)
    /\ calls[c].pc = "done"
    /\ calls[c].aborted
    /\ calls[c].rule = Undefined
    /\ calls[c].result = Some([text |-> "Request timed out after 30000ms"])

\* the answer to the call's token request is a 2xx answer with a JSON body
ExchangeSucceeded(resp) ==
  /\ resp.kind = "http"
  /\ resp.status \in 200..299
  /\ resp.json # Undefined

\* C30: when the exchanges of two calls on one cache key overlap, the step
\* in which a call's exchange succeeds makes the cache entry the one built
\* from that call's answer, whatever entry was there (the last answer
\* processed wins, also when its token expires earlier), and the call
\* sends its resource request with the token of its own answer.
C30_LastWriterWins ==
  [][\A c \in Calls :
       (/\ calls[c].pc = "token_wait"
        /\ calls'[c].response # Undefined
        /\ ExchangeSucceeded(calls'[c].response[1]))
       => LET answer == calls'[c].response[1].json[1]
              k == cacheKey(calls[c].rule[1].auth)
          IN
          /\ k \in DOMAIN tokenCache'
          /\ tokenCache'[k] =
               [accessToken |-> answer.access_token,
                expiresAt |-> now + (answer.expires_in - 60) * 1000]
          /\ calls'[c].sent[Len(calls'[c].sent)].kind = "resource"
          /\ calls'[c].sent[Len(calls'[c].sent)].headers["Authorization"]
               = "Bearer " \o answer.access_token]_vars

\* two calls missed the cache together; the answer processed last carried
\* the token that expires earlier, and it is the one in the cache
C30_Witness ==
  \E c1, c2 \in Calls :
    /\ c1 # c2
    /\ ReadMissed(c1)
    /\ ReadMissed(c2)
    /\ calls[c1].cachedToken = Undefined
    /\ calls[c2].cachedToken = Undefined
    /\ cacheKey(calls[c1].rule[1].auth) = cacheKey(calls[c2].rule[1].auth)
    /\ calls[c1].stored # Undefined
    /\ calls[c2].stored # Undefined
    /\ calls[c1].stored[1].expiresAt > calls[c2].stored[1].expiresAt
    /\ tokenCache[cacheKey(calls[c2].rule[1].auth)] = calls[c2].stored[1]
    /\ calls[c1].token = Some(calls[c1].stored[1].accessToken)
    /\ calls[c2].token = Some(calls[c2].stored[1].accessToken)

\* C31: an entry built from an answer that announces expires_in of 60
\* seconds or less has expires_at not after its store time, and a call
\* that reads it, however soon, is not served from the cache: it performs
\* a token exchange of its own.
C31_ShortLivedTokenNeverServed ==
  \A c1, c2 \in Calls :
    (/\ ReadsEntryOf(c1, c2)
     /\ calls[c1].response[1].json[1].expires_in <= 60)
    => /\ calls[c1].stored[1].expiresAt <= calls[c1].storedAt[1]
       /\ ~ServedFromCache(c2)
       /\ Cardinality(RequestsOf(c2, "token")) = 1

\* a token announced for exactly 60 seconds, read in the instant it was
\* stored, and exchanged anew
C31_Witness ==
  \E c1, c2 \in Calls :
    /\ ReadsEntryOf(c1, c2)
    /\ calls[c1].response[1].json[1].expires_in = 60
    /\ calls[c2].checkedAt = calls[c1].storedAt
    /\ calls[c2].cachedToken[1].accessToken = "tok2"
    /\ calls[c2].sent[1] = TokenRequest(calls[c2].rule[1].auth)

\* the (token_url, client_id) pair of the oauth2 rule call c matched
PairOf(c) ==
  <<calls[c].rule[1].auth.token_url, calls[c].rule[1].auth.client_id>>

\* C32: a call served from the cache gets a token that an exchange for
\* its own (token_url, client_id) pair stored; a token obtained for one
\* pair is never handed to a call for a different pair, whatever
\* characters the two values hold.
C32_PairsNeverShareAnEntry ==
  \A c2 \in Calls :
    ServedFromCache(c2)
    => \E c1 \in Calls \ {c2} :
         /\ IsOAuthCall(c1)
         /\ PairOf(c1) = PairOf(c2)
         /\ calls[c1].stored = calls[c2].cachedToken
         /\ calls[c1].response[1].json[1].access_token = calls[c2].token[1]

\* C33: a call of findMatchingRule leaves the list it was given as it
\* was, order and contents, and a second call with the same URL and the
\* same list returns what the first call returned.
C33_ListUntouchedAndCallRepeatable ==
  [][(mpc \in {"ready", "returned"} /\ mpc' # mpc)
     => /\ mRules' = mRules
        /\ mUrl' = mUrl
        /\ mpc = "returned" => mResult' = mResult]_vars

\* called twice on a list that holds a disabled rule and is not in the
\* order the rules are tried in; the rule returned is not the list's first
C33_Witness ==
  /\ mpc = "again"
  /\ ActiveRules(mRules) # mRules
  /\ SortRules(mRules) # mRules
  /\ mResult # Undefined
  /\ mResult # Some(mRules[1])

====
